---- MODULE Spec2Model ----
(***************************************************************************)
(* ConsentLens: the document-analysis request pipeline.                    *)
(*                                                                         *)
(* One invocation of the POST handler of the analyze route, in its two     *)
(* source variants:                                                        *)
(*   "simple" - src/app/api/analyze/route.ts (always falls back silently)  *)
(*   "flag"   - src/unnamed/part_000 (USE_FALLBACK selects silent fallback *)
(*              or a surfaced error)                                       *)
(* The provider, the data store and the request are the environment: each  *)
(* provider call and each insert draws its outcome from a small set.       *)
(*                                                                         *)
(* Texts that come from outside (header values, response bodies, message   *)
(* content, error messages) are sequences of tokens; string literals of    *)
(* the code are TLA+ strings.                                              *)
(***************************************************************************)
EXTENDS Integers, Sequences, FiniteSets, TLC

(***************************************************************************)
(* Bounds of the environment                                               *)
(***************************************************************************)
\* longest Retry-After header value, in characters
MaxHeaderLen == 1
\* longest number part of a "try again in <number>s" body hint, in characters
MaxHintLen == 1

(***************************************************************************)
(* JavaScript values                                                       *)
(***************************************************************************)
\* a number: NaN or an integer (delays are whole milliseconds in every case
\* the model draws, see HintNumbers)
Num(n) == [nan |-> FALSE, v |-> n]
NaN == [nan |-> TRUE, v |-> 0]
\* null / undefined
Null == [isnull |-> TRUE]
Undefined == "<undefined>"

\* faulty alternative: only an absent field counts as missing, an empty string passes
FalsyAbsentOnly(v) == v = Undefined

\* !v for the strings of the request
Falsy(v) == v \in {Undefined, ""}

\* a ?? b
Coalesce(a, b) == IF a = Null THEN b ELSE a

(***************************************************************************)
(* Number.parseInt(s, 10) on a sequence of characters                      *)
(***************************************************************************)
DigitValue ==
  ("0" :> 0) @@ ("1" :> 1) @@ ("2" :> 2) @@ ("3" :> 3) @@ ("4" :> 4) @@
  ("5" :> 5) @@ ("6" :> 6) @@ ("7" :> 7) @@ ("8" :> 8) @@ ("9" :> 9)

IsDigit(c) == c \in DOMAIN DigitValue

RECURSIVE SkipWs(_)
SkipWs(s) == IF s # <<>> /\ Head(s) = " " THEN SkipWs(Tail(s)) ELSE s

RECURSIVE LeadingDigits(_)
LeadingDigits(s) ==
  IF s = <<>> \/ ~IsDigit(Head(s)) THEN <<>>
  ELSE <<Head(s)>> \o LeadingDigits(Tail(s))

RECURSIVE DecimalValue(_)
DecimalValue(d) ==
  IF d = <<>> THEN 0
  ELSE DecimalValue(SubSeq(d, 1, Len(d) - 1)) * 10 + DigitValue[d[Len(d)]]

parseInt(s) ==
  LET t == SkipWs(s)
      signed == t # <<>> /\ Head(t) \in {"-", "+"}
      neg == t # <<>> /\ Head(t) = "-"
      d == LeadingDigits(IF signed THEN Tail(t) ELSE t)
  IN IF d = <<>> THEN NaN
     ELSE Num(IF neg THEN 0 - DecimalValue(d) ELSE DecimalValue(d))

\* n * 1000
Times1000(n) == IF n.nan THEN NaN ELSE Num(n.v * 1000)

(***************************************************************************)
(* parseGroqRetry: /try again in\s+([\d.]+)s/i, parseFloat, Math.ceil      *)
(* A body text is a sequence of tokens: TryAgainIn stands for the words    *)
(* "try again in" (any letter case), " " for a whitespace character, the   *)
(* digits and "." for themselves, "s" for the letter s, and any other      *)
(* token for text the pattern does not mention.                            *)
(***************************************************************************)
TryAgainIn == "try again in"

IsNumChar(c) == IsDigit(c) \/ c = "."

\* the longest prefix of s made of characters satisfying the class
RECURSIVE WsRun(_)
WsRun(s) == IF s # <<>> /\ Head(s) = " " THEN 1 + WsRun(Tail(s)) ELSE 0

RECURSIVE NumRun(_)
NumRun(s) == IF s # <<>> /\ IsNumChar(Head(s)) THEN 1 + NumRun(Tail(s)) ELSE 0

Drop(s, n) == SubSeq(s, n + 1, Len(s))

\* does the pattern match with "try again in" at position i; both quantifiers
\* are greedy and what follows each is outside its class, so the match is
\* the maximal runs
MatchAt(text, i) ==
  /\ text[i] = TryAgainIn
  /\ LET afterWords == Drop(text, i)
         ws == WsRun(afterWords)
         afterWs == Drop(afterWords, ws)
         num == NumRun(afterWs)
         afterNum == Drop(afterWs, num)
     IN ws >= 1 /\ num >= 1 /\ afterNum # <<>> /\ Head(afterNum) = "s"

\* capture group 1 of the match at position i
GroupAt(text, i) ==
  LET afterWords == Drop(text, i)
      afterWs == Drop(afterWords, WsRun(afterWords))
  IN SubSeq(afterWs, 1, NumRun(afterWs))

RECURSIVE Pow10(_)
Pow10(k) == IF k = 0 THEN 1 ELSE 10 * Pow10(k - 1)

CeilDiv(a, b) == (a + b - 1) \div b

\* Math.ceil(Number.parseFloat(g) * 1000): parseFloat reads the longest
\* prefix digits [. digits] that holds at least one digit
CeilMillis(g) ==
  LET int == LeadingDigits(g)
      rest == Drop(g, Len(int))
      frac == IF rest # <<>> /\ Head(rest) = "." THEN LeadingDigits(Tail(rest)) ELSE <<>>
  IN IF int = <<>> /\ frac = <<>> THEN NaN
     ELSE Num(DecimalValue(int) * 1000
              + CeilDiv(DecimalValue(frac) * 1000, Pow10(Len(frac))))

parseGroqRetry(text) ==
  IF text = <<>> THEN Null
  ELSE LET hits == {i \in 1..Len(text) : MatchAt(text, i)}
       IN IF hits = {} THEN Null
          ELSE CeilMillis(GroupAt(text, CHOOSE i \in hits : \A j \in hits : i <= j))

(***************************************************************************)
(* Configuration and constants of the handler                              *)
(***************************************************************************)
MAX_RETRIES == 4

fallbackResult ==
  [complianceScore |-> "72",
   riskLevel |-> "medium",
   keyPoints |-> <<"Data is shared with third-party analytics providers.",
                   "User data may be stored for up to 24 months.",
                   "You have the right to request deletion of personal data.",
                   "Cookies are used for personalization and ads.",
                   "Service reserves the right to update terms without notice.">>,
   recommendations |->
     <<[title |-> "Disable third-party cookies",
        description |-> "Limit tracking by turning off third-party cookies in your browser.",
        severity |-> "medium", category |-> "privacy"],
       [title |-> "Request data deletion",
        description |-> "Exercise your right to be forgotten if you stop using the service.",
        severity |-> "high", category |-> "rights"]>>]

\* { ...a, ...b }: the fields of b win
Spread(a, b) == b @@ a

(***************************************************************************)
(* The environment: requests, provider responses, insert outcomes          *)
(***************************************************************************)
Variants == {"simple", "flag"}

Requests ==
  [content : {Undefined, "", "doc"},
   lawRegion : {Undefined, "", "gdpr"},
   documentId : {Undefined, "d1"}]

RECURSIVE StringsOver(_, _)
StringsOver(chars, n) ==
  IF n = 0 THEN {<<>>}
  ELSE LET shorter == StringsOver(chars, n - 1)
       IN shorter \cup {Append(t, c) : t \in shorter, c \in chars}

\* Retry-After header: absent (null) or a value
HeaderChars == {"2", "-"}
NoHeader == [present |-> FALSE, value |-> <<>>]
RetryAfterValues ==
  {NoHeader} \cup {[present |-> TRUE, value |-> v] : v \in StringsOver(HeaderChars, MaxHeaderLen)}

\* headers.get(name): the value, or null
HeaderGet(h) == IF h.present THEN h.value ELSE Null

\* number parts of a body hint; with these characters the double-precision
\* product parseFloat(g) * 1000 is exact, so Math.ceil is the exact ceiling
HintChars == {"7", "."}
HintNumbers == StringsOver(HintChars, MaxHintLen) \ {<<>>}

ErrorBodies ==
  {<<>>, <<"rate limit reached">>}
    \cup {<<"rate limit reached", TryAgainIn, " ">> \o g \o <<"s">> : g \in HintNumbers}
    \cup {<<TryAgainIn, "7", "s">>}

\* message contents of a 2xx answer
Answers ==
  {<<>>, <<" ">>, <<"prose">>, <<" ", "prose", " ">>,
   <<"{full}">>, <<" ", "{full}", " ">>, <<"{partial}">>,
   <<"null">>, <<"7">>, <<"[]">>, <<"\"s\"">>}

\* what a provider call resolves to.  envelope tells what json() makes of a
\* 2xx body: "content" (choices[0].message.content is `content`),
\* "nochoices" (a JSON object without choices) or "notjson".
Response(st, ra, body, env, content) ==
  [status |-> st, retryAfter |-> ra, body |-> body, envelope |-> env, content |-> content]

\* the 429 answers: every Retry-After value with a body without and with a
\* hint, and every body under an absent or empty Retry-After
RateLimited ==
  {Response(429, ra, b, "notjson", <<>>) :
     ra \in RetryAfterValues,
     b \in {<<"rate limit reached">>, <<"rate limit reached", TryAgainIn, " ", "7", "s">>}}
    \cup {Response(429, ra, b, "notjson", <<>>) :
            ra \in {NoHeader, [present |-> TRUE, value |-> <<>>]}, b \in ErrorBodies}

ProviderResponses ==
  {Response(200, NoHeader, <<"envelope">>, "content", a) : a \in Answers}
    \cup {Response(200, NoHeader, <<"envelope">>, "nochoices", <<>>),
          Response(200, NoHeader, <<"<html>">>, "notjson", <<>>)}
    \cup {Response(st, NoHeader, <<"error">>, "notjson", <<>>) : st \in {400, 404, 500, 503}}
    \cup RateLimited

\* Response.ok
Ok(res) == res.status >= 200 /\ res.status <= 299

\* a fetch that rejects (network-level failure)
Rejected == [rejected |-> TRUE]
FetchOutcomes == ProviderResponses \cup {Rejected}

\* the insert resolves without error, resolves with {error}, or throws
InsertOutcomes == {"ok", "error", "throws"}

NoResponse == [status |-> 0]

(***************************************************************************)
(* State of one invocation                                                 *)
(***************************************************************************)
VARIABLES
  variant,       \* which source variant of the handler runs
  GROQ_API_KEY,  \* TRUE iff process.env.GROQ_API_KEY is set
  MODEL_NAME,    \* the primary model name ("" when unset, flag variant)
  USE_FALLBACK,  \* process.env.USE_FALLBACK === "true" (flag variant)
  req,           \* the parsed request body
  pc,            \* position in the handler
  attempt,       \* the retry loop's counter
  groqRes,       \* the last provider response, NoResponse before the first
  bodyUsed,      \* groqRes.bodyUsed
  bodyReads,     \* how many times text() or json() was called on groqRes
  trace,         \* provider calls and waits, in order
  inserts,       \* inserts into analysis_results that were issued, in order
  response       \* the HTTP response, NoResponse until the handler returns

analyzeVars == <<variant, GROQ_API_KEY, MODEL_NAME, USE_FALLBACK, req, pc, attempt,
                 groqRes, bodyUsed, bodyReads, trace, inserts, response>>

config == <<variant, GROQ_API_KEY, MODEL_NAME, USE_FALLBACK, req>>

(***************************************************************************)
(* State of concurrent invocations of the analyze handler                  *)
(***************************************************************************)
VARIABLES
  inv,            \* per invocation: the locals of its POST activation
  attemptOf,      \* the retry counters, one cell per activation
  moduleFallback  \* the module-level fallbackResult object

concVars == <<inv, attemptOf, moduleFallback>>

Invocations == {1, 2}

\* the locals of an activation that received request r
Locals(r) ==
  [req |-> r, pc |-> "entry", groqRes |-> NoResponse, bodyUsed |-> FALSE,
   trace |-> <<>>, seen |-> <<>>, inserts |-> <<>>, response |-> NoResponse]

NoRequest == [content |-> Undefined, lawRegion |-> Undefined, documentId |-> Undefined]

ConcIdle ==
  /\ inv = [i \in Invocations |-> Locals(NoRequest)]
  /\ attemptOf = [i \in Invocations |-> 0]
  /\ moduleFallback = fallbackResult

(***************************************************************************)
(* State of the prompt construction                                        *)
(***************************************************************************)
VARIABLES
  promptIn,  \* the handler variant, lawRegion and the length of content
  prompt     \* the region label and document length placed in the prompt

promptVars == <<promptIn, prompt>>

NoPrompt == [built |-> FALSE]

PromptIdle ==
  /\ promptIn = [variant |-> "simple", lawRegion |-> "gdpr", contentLen |-> 1]
  /\ prompt = NoPrompt

(***************************************************************************)
(* State of the page UI (page.tsx)                                         *)
(***************************************************************************)
VARIABLES
  user,               \* TRUE iff useAuth() gives a signed-in user
  conversationInput,  \* the text of the conversation input
  documentText,       \* TRUE iff documentText is non-empty
  processingState,    \* "idle" | "processing" | "completed"
  progress,           \* the progress bar's value
  viewMode,           \* "home" | "results"
  authModalOpen,
  runs,               \* the calls of the two analysis handlers, in order
  timers,             \* the runs whose progressInterval is still set
  documents,          \* rows inserted into documents
  requests            \* POST /api/analyze requests sent

pageVars == <<user, conversationInput, documentText, processingState, progress,
              viewMode, authModalOpen, runs, timers, documents, requests>>

PageIdle ==
  /\ user = FALSE
  /\ conversationInput = <<>>
  /\ documentText = FALSE
  /\ processingState = "idle"
  /\ progress = 0
  /\ viewMode = "home"
  /\ authModalOpen = FALSE
  /\ runs = <<>>
  /\ timers = {}
  /\ documents = 0
  /\ requests = 0

(***************************************************************************)
(* State of the chat interface (chat-interface.tsx)                        *)
(***************************************************************************)
VARIABLES
  originalContent,  \* the analysed document handed to the component
  messages,         \* the conversation shown
  input,            \* the text of the question input
  isTyping,         \* a reply is pending
  chatPending,      \* /api/chat requests sent and not yet settled
  chatSent          \* /api/chat requests sent so far

chatVars == <<originalContent, messages, input, isTyping, chatPending, chatSent>>

Greeting == [type |-> "assistant", content |-> <<"greeting">>]

ChatIdle ==
  /\ originalContent = <<"doc">>
  /\ messages = <<Greeting>>
  /\ input = <<>>
  /\ isTyping = FALSE
  /\ chatPending = 0
  /\ chatSent = 0

(***************************************************************************)
(* State of one invocation of the chat endpoint (api/chat/route.ts and its *)
(* variant in footer.tsx)                                                  *)
(***************************************************************************)
VARIABLES
  apiVariant,   \* which source variant of the chat handler runs
  apiKey,       \* TRUE iff process.env.GROQ_API_KEY is set
  apiReq,       \* the parsed request body
  apiPc,        \* position in the handler
  apiCalls,     \* the provider calls made, in order
  apiResponse   \* the HTTP response, NoResponse until the handler returns

apiVars == <<apiVariant, apiKey, apiReq, apiPc, apiCalls, apiResponse>>

ApiIdle ==
  /\ apiVariant = "route"
  /\ apiKey = TRUE
  /\ apiReq = [documentContent |-> Undefined, question |-> Undefined, chatHistory |-> Undefined]
  /\ apiPc = "entry"
  /\ apiCalls = <<>>
  /\ apiResponse = NoResponse

(***************************************************************************)
(* State of one invocation of the delete-account endpoint and of the rows  *)
(* of the user it is asked to delete                                       *)
(***************************************************************************)
VARIABLES
  profileCascades,  \* user_profiles.id REFERENCES auth.users(id) ON DELETE CASCADE
  userId,           \* the userId of the request body
  rows,             \* which record sets still hold rows of the user
  delPc,            \* position in the handler
  docIds,           \* TRUE iff the select found documents of the user
  delFailed,        \* the store operations that returned an error
  delResponse       \* the HTTP response, NoResponse until the handler returns

delVars == <<profileCascades, userId, rows, delPc, docIds, delFailed, delResponse>>

NoRows == [auth |-> FALSE, profile |-> FALSE, documents |-> FALSE, results |-> FALSE]

DelIdle ==
  /\ profileCascades = FALSE
  /\ userId = Undefined
  /\ rows = NoRows
  /\ delPc = "entry"
  /\ docIds = FALSE
  /\ delFailed = {}
  /\ delResponse = NoResponse

\* the state of the other components, which a step of one component leaves alone
others == <<concVars, promptVars, pageVars, chatVars, apiVars, delVars>>
exceptConc == <<analyzeVars, promptVars, pageVars, chatVars, apiVars, delVars>>
exceptPrompt == <<analyzeVars, concVars, pageVars, chatVars, apiVars, delVars>>
exceptPage == <<analyzeVars, concVars, promptVars, chatVars, apiVars, delVars>>
exceptChat == <<analyzeVars, concVars, promptVars, pageVars, apiVars, delVars>>
exceptApi == <<analyzeVars, concVars, promptVars, pageVars, chatVars, delVars>>
exceptDel == <<analyzeVars, concVars, promptVars, pageVars, chatVars, apiVars>>

Init ==
  /\ variant \in Variants
  /\ GROQ_API_KEY \in BOOLEAN
  /\ MODEL_NAME \in IF variant = "flag" THEN {"", "primary"} ELSE {"primary"}
  /\ USE_FALLBACK \in IF variant = "flag" THEN BOOLEAN ELSE {FALSE}
  /\ req \in Requests
  /\ pc = "entry"
  /\ attempt = 0
  /\ groqRes = NoResponse
  /\ bodyUsed = FALSE
  /\ bodyReads = 0
  /\ trace = <<>>
  /\ inserts = <<>>
  /\ response = NoResponse
  /\ ConcIdle
  /\ PromptIdle
  /\ PageIdle
  /\ ChatIdle
  /\ ApiIdle
  /\ DelIdle

(***************************************************************************)
(* Helpers of the handler                                                  *)
(***************************************************************************)
FALLBACK_MODEL == "fallback"

\* String.prototype.trim on a token sequence
RECURSIVE TrimStart(_)
TrimStart(t) == IF t # <<>> /\ Head(t) = " " THEN TrimStart(Tail(t)) ELSE t

RECURSIVE TrimEnd(_)
TrimEnd(t) ==
  IF t # <<>> /\ t[Len(t)] = " " THEN TrimEnd(SubSeq(t, 1, Len(t) - 1)) ELSE t

\* faulty alternative: only leading whitespace is stripped
TrimLeadingOnly(t) == TrimStart(t)

Trim(t) == TrimEnd(TrimStart(t))

\* the values of the JSON texts the model may answer with; a value that is
\* not an object is a record holding only jsvalue
ModelResult ==
  [complianceScore |-> "85",
   riskLevel |-> "low",
   keyPoints |-> <<"Consent is requested before data collection.">>,
   recommendations |->
     <<[title |-> "Review retention", description |-> "Check the retention period.",
        severity |-> "low", category |-> "compliance"]>>]

JsonValue ==
  ("{full}" :> ModelResult) @@
  ("{partial}" :> [complianceScore |-> "85"]) @@
  ("null" :> [jsvalue |-> "null"]) @@
  ("7" :> [jsvalue |-> "number"]) @@
  ("[]" :> [jsvalue |-> "array"]) @@
  ("\"s\"" :> [jsvalue |-> "string"])

IsJsNull(v) == v = [jsvalue |-> "null"]

\* JSON.parse: the value, or a SyntaxError
JSONparse(t) ==
  IF Len(t) = 1 /\ t[1] \in DOMAIN JsonValue
  THEN [ok |-> TRUE, value |-> JsonValue[t[1]]]
  ELSE [ok |-> FALSE]

\* choices?.[0]?.message?.content of the parsed envelope, trimmed, ?? ""
Answer(res) == IF res.envelope = "content" THEN Trim(res.content) ELSE <<>>

EmptyObject == [f \in {} |-> f]

\* name: r[f], left out when r[f] is undefined
Field(name, r, f) == IF f \in DOMAIN r THEN (name :> r[f]) ELSE EmptyObject

\* the object handed to insert()
Row(documentId, r) ==
  [document_id |-> documentId, summary |-> Field("keyPoints", r, "keyPoints")]
    @@ Field("compliance_score", r, "complianceScore")
    @@ Field("risk_level", r, "riskLevel")
    @@ Field("recommendations", r, "recommendations")

\* saveResult(documentId, r): the inserts issued so far plus this one.  Reading
\* r.keyPoints of null throws inside the try before insert() is called; an
\* insert that fails or throws is caught and logged.
\* (only the simple variant's saveResult checks documentId itself)
saveResult(documentId, r, outcome) ==
  IF (variant = "simple" /\ Falsy(documentId)) \/ IsJsNull(r) THEN inserts
  ELSE Append(inserts, [row |-> Row(documentId, r), outcome |-> outcome])

\* faulty alternative: a failed insert escapes saveResult
saveResultRejectsOnFailure(documentId, r, outcome) ==
  ~IsJsNull(r) /\ outcome \in {"error", "throws"}

\* does the promise of saveResult reject: all that can throw in it
\* (createServerClient, reading r, insert, `throw error`) is inside its try,
\* and its catch only logs
saveResultRejects(documentId, r, outcome) == FALSE

\* faulty alternative: the caller does not test documentId
SaveAlways(r, outcome) == saveResult(req.documentId, r, outcome)

\* if (documentId) await saveResult(documentId, r)
SaveIfDocument(r, outcome) ==
  IF Falsy(req.documentId) THEN inserts ELSE saveResult(req.documentId, r, outcome)

\* json(data, init)
json(data, status) == [status |-> status, body |-> data]

\* the outer catch of the handler
InternalError(message) ==
  IF variant = "simple" THEN json([error |-> "Internal error"], 500)
  ELSE json([error |-> "Internal error", message |-> message], 500)

\* the response of a branch that awaits saveResult(documentId, r) outside any
\* try of its own: a rejection would reach the outer catch
AfterSave(resp, r, outcome) ==
  IF ~Falsy(req.documentId) /\ saveResultRejects(req.documentId, r, outcome)
  THEN InternalError(<<"insert failed">>)
  ELSE resp

Call(model, outcome) ==
  [e |-> "call", model |-> model,
   rejected |-> (outcome = Rejected),
   status |-> IF outcome = Rejected THEN 0 ELSE outcome.status]

Wait(delay) == [e |-> "wait", ms |-> delay]

Missing == Falsy(req.content) \/ Falsy(req.lawRegion)

\* faulty alternative: only the model name is checked, the missing key goes unnoticed
UnconfiguredModelOnly == variant = "flag" /\ MODEL_NAME = ""

Unconfigured ==
  IF variant = "simple" THEN ~GROQ_API_KEY ELSE ~GROQ_API_KEY \/ MODEL_NAME = ""

\* faulty alternative: the body hint is preferred to the Retry-After header
RateLimitDelayBodyFirst(res) ==
  LET retryHeader == HeaderGet(res.retryAfter)
      headerDelay == IF res.retryAfter.present /\ retryHeader # <<>>
                     THEN Times1000(parseInt(retryHeader)) ELSE Null
  IN Coalesce(Coalesce(parseGroqRetry(res.body), headerDelay), Num(5000))

\* faulty alternative: the Retry-After header is ignored
RateLimitDelayNoHeader(res) == Coalesce(parseGroqRetry(res.body), Num(5000))

\* the delay the retry loop waits after a 429
RateLimitDelay(res) ==
  LET retryHeader == HeaderGet(res.retryAfter)
      headerDelay == IF res.retryAfter.present /\ retryHeader # <<>>
                     THEN Times1000(parseInt(retryHeader)) ELSE Null
      parsedDelay == parseGroqRetry(res.body)
  IN Coalesce(Coalesce(headerDelay, parsedDelay), Num(5000))

\* faulty alternative: the loop bound is off by one
LoopContinuesOffByOne(n) == n <= MAX_RETRIES

\* while (attempt < MAX_RETRIES)
LoopContinues(n) == n < MAX_RETRIES

\* faulty alternative: every 4xx counts as a server error and is retried
IsServerErrorFrom400(st) == st >= 400

\* else if (groqRes.status >= 500)
IsServerError(st) == st >= 500

\* faulty alternative: the fallback model is tried after any non-2xx answer
NeedsModelFallbackAnyNonOk(res) == res # NoResponse /\ ~Ok(res)

\* faulty alternative: the fallback model is tried on 400 instead of 404
NeedsModelFallbackOn400(res) == res # NoResponse /\ ~Ok(res) /\ res.status = 400

\* if (groqRes && !groqRes.ok && groqRes.status === 404)
NeedsModelFallback(res) == res # NoResponse /\ ~Ok(res) /\ res.status = 404

RECURSIVE Pow2(_)
Pow2(k) == IF k = 0 THEN 1 ELSE 2 * Pow2(k - 1)

\* faulty alternative: the backoff grows linearly
BackoffDelayLinear(n) == Num(2000 * (n + 1))

\* the delay the retry loop waits after a 5xx
BackoffDelay(n) == Num(2000 * Pow2(n))

(***************************************************************************)
(* The handler, step by step                                               *)
(***************************************************************************)
Finish(resp, ins) ==
  /\ response' = resp
  /\ inserts' = ins
  /\ pc' = "done"

\* if (!content || !lawRegion) return 400
InvalidRequest ==
  /\ pc = "entry"
  /\ Missing
  /\ Finish(json([error |-> "Missing content or lawRegion"], 400), inserts)
  /\ UNCHANGED <<others, config, attempt, groqRes, bodyUsed, bodyReads, trace>>

\* no API key (flag variant: or no model) configured
ProviderUnconfigured ==
  /\ pc = "entry"
  /\ ~Missing
  /\ Unconfigured
  /\ \E o \in InsertOutcomes :
       IF variant = "simple" \/ USE_FALLBACK
       THEN Finish(AfterSave(json(fallbackResult, 200), fallbackResult, o),
                   SaveIfDocument(fallbackResult, o))
       ELSE Finish(json([error |-> "GROQ_API_KEY or GROQ_MODEL missing. Set environment variables."], 500),
                   inserts)
  /\ UNCHANGED <<others, config, attempt, groqRes, bodyUsed, bodyReads, trace>>

\* the prompt is built and the retry loop entered
BuildRequest ==
  /\ pc = "entry"
  /\ ~Missing
  /\ ~Unconfigured
  /\ pc' = "loop"
  /\ UNCHANGED <<others, config, attempt, groqRes, bodyUsed, bodyReads, trace, inserts, response>>

\* a rejected fetch: caught by the handler in the simple variant, by the outer
\* catch in the flag variant
FetchFailed(code, o) ==
  IF variant = "simple"
  THEN Finish(AfterSave(json(Spread(fallbackResult,
                                    [fallback |-> TRUE, error |-> code,
                                     details |-> <<"TypeError: fetch failed">>]), 200),
                        fallbackResult, o),
              SaveIfDocument(fallbackResult, o))
  ELSE Finish(InternalError(<<"fetch failed">>), inserts)

\* one iteration of the retry loop, the provider answering from `outcomes`
AttemptOn(outcomes) ==
  /\ pc = "loop"
  /\ LoopContinues(attempt)
  /\ \E out \in outcomes :
       IF out = Rejected
       THEN /\ trace' = Append(trace, Call(MODEL_NAME, out))
            /\ \E o \in InsertOutcomes : FetchFailed("groq_fetch_failed", o)
            /\ UNCHANGED <<attempt, groqRes, bodyUsed, bodyReads>>
       ELSE /\ groqRes' = out
            /\ UNCHANGED <<inserts, response>>
            /\ IF Ok(out) \/ out.status = 404
               THEN /\ trace' = Append(trace, Call(MODEL_NAME, out))
                    /\ bodyUsed' = FALSE
                    /\ bodyReads' = 0
                    /\ pc' = "after_loop"
                    /\ UNCHANGED attempt
               ELSE /\ bodyUsed' = TRUE
                    /\ bodyReads' = 1
                    /\ IF out.status = 429 \/ IsServerError(out.status)
                       THEN /\ trace' = trace \o
                                 <<Call(MODEL_NAME, out),
                                   Wait(IF out.status = 429 THEN RateLimitDelay(out)
                                        ELSE BackoffDelay(attempt))>>
                            /\ attempt' = attempt + 1
                            /\ pc' = IF LoopContinues(attempt + 1) THEN "loop" ELSE "after_loop"
                       ELSE /\ trace' = Append(trace, Call(MODEL_NAME, out))
                            /\ pc' = "after_loop"
                            /\ UNCHANGED attempt
  /\ UNCHANGED <<others, config>>

Attempt == AttemptOn(FetchOutcomes)

\* 404: one call with the fallback model, the provider answering from `outcomes`
ModelFallbackOn(outcomes) ==
  /\ pc = "after_loop"
  /\ NeedsModelFallback(groqRes)
  /\ \E out \in outcomes :
       /\ trace' = Append(trace, Call(FALLBACK_MODEL, out))
       /\ IF out = Rejected
          THEN /\ \E o \in InsertOutcomes : FetchFailed("groq_fallback_fetch_failed", o)
               /\ UNCHANGED <<groqRes, bodyUsed, bodyReads>>
          ELSE /\ groqRes' = out
               /\ bodyUsed' = FALSE
               /\ bodyReads' = 0
               /\ pc' = "settled"
               /\ UNCHANGED <<inserts, response>>
  /\ UNCHANGED <<others, config, attempt>>

ModelFallback == ModelFallbackOn(FetchOutcomes)

\* past the 404 branch
Settled == pc = "settled" \/ (pc = "after_loop" /\ ~NeedsModelFallback(groqRes))

\* the final response is not 2xx
HandleNonOk ==
  /\ Settled
  /\ groqRes = NoResponse \/ ~Ok(groqRes)
  /\ \E o \in InsertOutcomes :
       IF groqRes # NoResponse /\ bodyUsed
       THEN \* text() of a body that was already read rejects
            Finish(InternalError(<<"Body is unusable">>), inserts)
       ELSE LET bodyText == IF groqRes # NoResponse THEN groqRes.body ELSE <<"no response">>
            IN IF variant = "simple" \/ USE_FALLBACK
               THEN Finish(AfterSave(json(Spread(fallbackResult,
                                                 [fallback |-> TRUE,
                                                  groqStatus |-> groqRes.status,
                                                  groqBody |-> bodyText]), 200),
                                     fallbackResult, o),
                           SaveIfDocument(fallbackResult, o))
               ELSE Finish(json([error |-> "Groq API failed", status |-> groqRes.status,
                                 details |-> bodyText], 502),
                           inserts)
  /\ bodyUsed' = TRUE
  /\ bodyReads' = bodyReads + 1
  /\ UNCHANGED <<others, config, attempt, groqRes, trace>>

\* what a message text that is not JSON is replaced by
Unparsed(answer) ==
  IF variant = "simple" THEN fallbackResult
  ELSE [complianceScore |-> "null", riskLevel |-> "unknown", keyPoints |-> <<>>,
        textualAnalysis |-> answer, recommendations |-> <<>>]

\* the final response is 2xx: parse and return
ParseResponse ==
  /\ Settled
  /\ groqRes # NoResponse /\ Ok(groqRes)
  /\ \E o \in InsertOutcomes :
       IF groqRes.envelope = "notjson"
       THEN \* json() rejects; the flag variant's catch then reads the consumed body
            Finish(InternalError(IF variant = "simple" THEN <<"Unexpected token">>
                                 ELSE <<"Body is unusable">>), inserts)
       ELSE LET answer == Answer(groqRes)
                p == JSONparse(answer)
                parsed == IF p.ok THEN p.value ELSE Unparsed(answer)
            IN Finish(json(parsed, 200), SaveIfDocument(parsed, o))
  /\ bodyUsed' = TRUE
  /\ bodyReads' = IF groqRes.envelope = "notjson" /\ variant = "flag"
                  THEN bodyReads + 2  \* json(), then text() in its catch
                  ELSE bodyReads + 1
  /\ UNCHANGED <<others, config, attempt, groqRes, trace>>

Next ==
  \/ InvalidRequest
  \/ ProviderUnconfigured
  \/ BuildRequest
  \/ Attempt
  \/ ModelFallback
  \/ HandleNonOk
  \/ ParseResponse

vars == <<analyzeVars, others>>

Spec == Init /\ [][Next]_vars

(***************************************************************************)
(* Vocabulary of the properties                                            *)
(***************************************************************************)
Last(q) == q[Len(q)]

IsCall(ev) == ev.e = "call"
IsWait(ev) == ev.e = "wait"

Calls == SelectSeq(trace, IsCall)

IsPrimaryCall(ev) == IsCall(ev) /\ ev.model = MODEL_NAME
IsFallbackCall(ev) == IsCall(ev) /\ ev.model = FALLBACK_MODEL

PrimaryCalls == SelectSeq(trace, IsPrimaryCall)
FallbackCalls == SelectSeq(trace, IsFallbackCall)

Done == pc = "done"

\* the request carries non-empty content and lawRegion
HasInput == req.content \notin {Undefined, ""} /\ req.lawRegion \notin {Undefined, ""}

\* the configurations that are meant to degrade silently
SilentFallback == variant = "simple" \/ USE_FALLBACK

\* a provider call was made and the last one rejected
LastCallRejected == Calls # <<>> /\ Last(Calls).rejected

\* a message text is JSON when it is one JSON token, padded by whitespace or not
IsNonSpace(c) == c # " "
NonSpace(text) == SelectSeq(text, IsNonSpace)
IsJsonText(text) == Len(NonSpace(text)) = 1 /\ NonSpace(text)[1] \in DOMAIN JsonValue

\* the last provider call resolved with a 2xx whose message text is JSON
LastCallJson ==
  /\ Calls # <<>> /\ ~Last(Calls).rejected
  /\ Ok(groqRes) /\ groqRes.envelope = "content"
  /\ IsJsonText(groqRes.content)

\* the value of the last call's message text
LastCallValue == JsonValue[NonSpace(groqRes.content)[1]]

\* the body is an analysis: it carries the four fields of an AnalysisResult
\* or is the value the model answered with
StaticFields == {"complianceScore", "riskLevel", "keyPoints", "recommendations"}
IsStaticFallback(body) ==
  StaticFields \subseteq DOMAIN body /\ [f \in StaticFields |-> body[f]] = fallbackResult

(***************************************************************************)
(* C1: a request with content and lawRegion is always answered 200 by the  *)
(* silent-fallback handler, whatever statuses the provider answers, also   *)
(* when a call rejects, the message text is not JSON or persistence fails; *)
(* the only other status is the 400 for missing input.  (The provider's    *)
(* 2xx bodies are well-formed envelopes, as the claim's cases are.)        *)
(***************************************************************************)
C1_SilentHandlerAlways200 ==
  (variant = "simple" /\ Done
     /\ ~(groqRes # NoResponse /\ Ok(groqRes) /\ groqRes.envelope = "notjson"))
    => IF HasInput THEN response.status = 200 ELSE response.status = 400

(***************************************************************************)
(* C2: when the last provider response is not 2xx, a silently degrading    *)
(* handler answers 200 with the static fallback annotated fallback: true,  *)
(* groqStatus and groqBody of that last response.                          *)
(***************************************************************************)
C2_NonOkGivesAnnotatedFallback ==
  (Done /\ SilentFallback /\ Calls # <<>> /\ ~Last(Calls).rejected /\ ~Ok(groqRes))
    => response = json(Spread(fallbackResult,
                              [fallback |-> TRUE, groqStatus |-> groqRes.status,
                               groqBody |-> groqRes.body]), 200)

(***************************************************************************)
(* C3: a request whose content or lawRegion is absent or empty is answered *)
(* 400 {error: "Missing content or lawRegion"}, with no provider call and  *)
(* no data-store write.                                                    *)
(***************************************************************************)
C3_MissingInputIs400 ==
  (Done /\ ~HasInput)
    => /\ response = [status |-> 400, body |-> [error |-> "Missing content or lawRegion"]]
       /\ trace = <<>>
       /\ inserts = <<>>

C3_Witness ==
  Done /\ req.content = "" /\ req.lawRegion = "gdpr" /\ response.status = 400 /\ trace = <<>>

(***************************************************************************)
(* C4 as stated: without a provider credential every request with content  *)
(* and lawRegion is answered 200 with exactly the static fallback result,  *)
(* and no provider call is made.                                           *)
(***************************************************************************)
C4_Original ==
  (Done /\ HasInput /\ ~GROQ_API_KEY)
    => response = [status |-> 200, body |-> fallbackResult] /\ Calls = <<>>

(***************************************************************************)
(* C4 amended: without a provider credential no provider call is made; the *)
(* answer is 200 with exactly the static fallback result in the simple     *)
(* variant and in the flag variant with USE_FALLBACK true, and 500 with a  *)
(* configuration error in the flag variant with USE_FALLBACK false.        *)
(***************************************************************************)
C4_UnconfiguredAnswer ==
  (Done /\ HasInput /\ ~GROQ_API_KEY)
    => /\ Calls = <<>>
       /\ IF variant = "simple" \/ USE_FALLBACK
          THEN response = [status |-> 200, body |-> fallbackResult]
          ELSE response =
                 [status |-> 500,
                  body |-> [error |-> "GROQ_API_KEY or GROQ_MODEL missing. Set environment variables."]]

C4_Witness ==
  Done /\ HasInput /\ ~GROQ_API_KEY /\ variant = "flag" /\ ~USE_FALLBACK
    /\ response.status = 500 /\ Calls = <<>>

(***************************************************************************)
(* C5: an invocation calls the primary model at most 4 times and the       *)
(* fallback model at most once, at most 5 provider calls in all.           *)
(***************************************************************************)
C5_CallBudget ==
  /\ Len(PrimaryCalls) <= 4
  /\ Len(FallbackCalls) <= 1
  /\ Len(Calls) <= 5

C5_Witness == Done /\ Len(PrimaryCalls) = 4 /\ Len(FallbackCalls) = 1

(***************************************************************************)
(* C6: when every provider answer is a 5xx, exactly 4 calls are made, all  *)
(* to the primary model, and the waits between consecutive calls are 2000, *)
(* 4000 and 8000 ms.                                                       *)
(***************************************************************************)
AllCalls5xx ==
  /\ Calls # <<>>
  /\ \A i \in 1..Len(Calls) : ~Calls[i].rejected /\ Calls[i].status >= 500

C6_ServerErrorBackoff ==
  (Done /\ AllCalls5xx)
    => /\ Len(Calls) = 4 /\ Len(PrimaryCalls) = 4
       /\ Len(trace) >= 7
       /\ \A k \in {1, 3, 5, 7} : IsCall(trace[k])
       /\ trace[2] = [e |-> "wait", ms |-> [nan |-> FALSE, v |-> 2000]]
       /\ trace[4] = [e |-> "wait", ms |-> [nan |-> FALSE, v |-> 4000]]
       /\ trace[6] = [e |-> "wait", ms |-> [nan |-> FALSE, v |-> 8000]]

C6_Witness == Done /\ AllCalls5xx /\ Len(Calls) = 4

(***************************************************************************)
(* C7: a retryable answer (429 or 5xx) followed within the 4 attempts by a *)
(* 2xx whose message is JSON: a wait stands between each two calls (the    *)
(* wait after a 429 with Retry-After: 2 is 2000 ms, the wait after the     *)
(* n-th call's 5xx is 2000 * 2^(n-1) ms) and the answer is 200 with the    *)
(* parsed payload of the successful call, not the static fallback.         *)
(***************************************************************************)
RetryAfter2 == [present |-> TRUE, value |-> <<"2">>]

BackoffTable == <<2000, 4000, 8000, 16000>>

C7_RetryThenSuccess ==
  /\ (trace # <<>> /\ IsWait(Last(trace)) /\ groqRes.status = 429
        /\ groqRes.retryAfter = RetryAfter2)
       => Last(trace).ms = [nan |-> FALSE, v |-> 2000]
  /\ (trace # <<>> /\ IsWait(Last(trace)) /\ groqRes.status >= 500)
       => Last(trace).ms = [nan |-> FALSE, v |-> BackoffTable[Len(Calls)]]
  /\ (Done /\ LastCallJson /\ IsPrimaryCall(Last(Calls)) /\ Len(Calls) >= 2)
       => /\ Len(Calls) <= 4
          /\ \A k \in 2..Len(trace) : IsCall(trace[k]) => IsWait(trace[k - 1])
          /\ \A k \in 1..(Len(trace) - 1) : IsCall(trace[k]) => IsWait(trace[k + 1])
          /\ response = [status |-> 200, body |-> LastCallValue]
          /\ response.body # fallbackResult

C7_Witness ==
  /\ Done /\ LastCallJson /\ Len(trace) = 3
  /\ trace[1].status = 429
  /\ trace[2] = [e |-> "wait", ms |-> [nan |-> FALSE, v |-> 2000]]
  /\ response = [status |-> 200, body |-> ModelResult]

(***************************************************************************)
(* C8: when the primary model's first answer is 404, exactly one primary   *)
(* call and one fallback-model call are made and nothing is waited; when   *)
(* the fallback model answers 2xx with JSON, the answer is 200 with its    *)
(* parsed result.                                                          *)
(***************************************************************************)
C8_NotFoundUsesFallbackModel ==
  (Done /\ trace # <<>> /\ ~trace[1].rejected /\ trace[1].status = 404)
    => /\ Len(trace) = 2
       /\ IsPrimaryCall(trace[1]) /\ IsFallbackCall(trace[2])
       /\ LastCallJson => response = [status |-> 200, body |-> LastCallValue]

C8_Witness ==
  /\ Done /\ Len(trace) = 2 /\ trace[1].status = 404 /\ IsFallbackCall(trace[2])
  /\ LastCallJson /\ response = [status |-> 200, body |-> ModelResult]

(***************************************************************************)
(* C9: when a provider call rejects, on the primary or on the fallback     *)
(* leg, nothing is called or waited after it and a silently degrading      *)
(* handler answers 200 with the static fallback result.                    *)
(***************************************************************************)
C9_NetworkFailureFallsBack ==
  (Done /\ SilentFallback /\ LastCallRejected)
    => /\ IsCall(Last(trace))
       /\ \A k \in 1..(Len(Calls) - 1) : ~Calls[k].rejected
       /\ response.status = 200
       /\ IsStaticFallback(response.body)

(***************************************************************************)
(* C10 as stated: a 2xx whose message text is not JSON is answered 200     *)
(* with the static fallback (simple variant) or with the degraded result   *)
(* whose textualAnalysis is the raw message text (flag variant).           *)
(***************************************************************************)
NotJsonText ==
  /\ Done /\ Calls # <<>> /\ ~Last(Calls).rejected
  /\ Ok(groqRes) /\ groqRes.envelope = "content"
  /\ ~IsJsonText(groqRes.content)

Degraded(text) ==
  [complianceScore |-> "null", riskLevel |-> "unknown", keyPoints |-> <<>>,
   recommendations |-> <<>>, textualAnalysis |-> text]

C10_Original ==
  NotJsonText
    => response = [status |-> 200,
                   body |-> IF variant = "flag" THEN Degraded(groqRes.content)
                            ELSE fallbackResult]

(***************************************************************************)
(* C10 amended: a 2xx whose message text is not JSON is answered 200 with  *)
(* the static fallback (simple variant) or with the degraded result whose  *)
(* textualAnalysis is the message text with its leading and trailing       *)
(* whitespace removed (flag variant).                                      *)
(***************************************************************************)
Spaces(n) == [i \in 1..n |-> " "]

\* t is text without its surrounding whitespace
IsTrimOf(t, text) ==
  /\ t = <<>> \/ (t[1] # " " /\ t[Len(t)] # " ")
  /\ \E a, b \in 0..Len(text) : text = Spaces(a) \o t \o Spaces(b)

C10_UnparsedText ==
  NotJsonText
    => /\ response.status = 200
       /\ IF variant = "flag"
          THEN /\ DOMAIN response.body = DOMAIN Degraded(<<>>)
               /\ response.body = Degraded(response.body.textualAnalysis)
               /\ IsTrimOf(response.body.textualAnalysis, groqRes.content)
          ELSE response.body = fallbackResult

C10_Witness ==
  /\ NotJsonText /\ variant = "flag"
  /\ groqRes.content = <<" ", "prose", " ">>
  /\ response.body = Degraded(<<"prose">>)

(***************************************************************************)
(* C11: every status-200 response body carries the four required fields    *)
(* complianceScore, riskLevel, keyPoints and recommendations, whatever     *)
(* JSON value the model answers with.                                      *)
(***************************************************************************)
C11_Every200IsAnalysisResult ==
  (Done /\ response.status = 200) => StaticFields \subseteq DOMAIN response.body

(***************************************************************************)
(* C12: a status-200 response whose content is the static canned result    *)
(* and not the model's own output carries fallback: true, and a response   *)
(* that carries the model's parsed output does not.                        *)
(***************************************************************************)
HasFallbackMarker(body) == "fallback" \in DOMAIN body /\ body.fallback = TRUE

C12_FallbackIsMarked ==
  (Done /\ response.status = 200)
    => /\ (IsStaticFallback(response.body) /\ ~LastCallJson)
            => HasFallbackMarker(response.body)
       /\ LastCallJson => ~HasFallbackMarker(response.body)

(***************************************************************************)
(* C13: when a documentId is given and the insert fails (resolves with an  *)
(* error or throws), the handler still answers with the status and body of *)
(* its path: the static fallback when unconfigured, the annotated fallback *)
(* after a rejected call or a non-2xx answer, the parsed (or unparsed-text)*)
(* result after a 2xx.                                                     *)
(***************************************************************************)
InsertFailed == inserts # <<>> /\ Last(inserts).outcome \in {"error", "throws"}

PathBodyIs(body) ==
  IF Calls = <<>> THEN body = fallbackResult
  ELSE IF Last(Calls).rejected
  THEN body = [f \in DOMAIN fallbackResult \cup {"fallback", "error", "details"} |->
                 CASE f = "fallback" -> TRUE
                   [] f = "error" -> IF IsFallbackCall(Last(Calls))
                                     THEN "groq_fallback_fetch_failed"
                                     ELSE "groq_fetch_failed"
                   [] f = "details" -> <<"TypeError: fetch failed">>
                   [] OTHER -> fallbackResult[f]]
  ELSE IF ~Ok(groqRes)
  THEN body = [f \in DOMAIN fallbackResult \cup {"fallback", "groqStatus", "groqBody"} |->
                 CASE f = "fallback" -> TRUE
                   [] f = "groqStatus" -> groqRes.status
                   [] f = "groqBody" -> groqRes.body
                   [] OTHER -> fallbackResult[f]]
  ELSE IF LastCallJson THEN body = LastCallValue
  ELSE IF variant = "simple" THEN body = fallbackResult
  ELSE /\ "textualAnalysis" \in DOMAIN body
       /\ body = [complianceScore |-> "null", riskLevel |-> "unknown", keyPoints |-> <<>>,
                  recommendations |-> <<>>, textualAnalysis |-> body.textualAnalysis]

C13_InsertFailureIsAbsorbed ==
  (Done /\ InsertFailed) => response.status = 200 /\ PathBodyIs(response.body)

C13_Witness ==
  /\ Done /\ inserts # <<>> /\ Last(inserts).outcome = "throws"
  /\ Calls # <<>> /\ ~Last(Calls).rejected /\ ~Ok(groqRes)
  /\ response.status = 200

(***************************************************************************)
(* C14: an invocation issues at most one insert into analysis_results, and *)
(* none when the request has no documentId.                                *)
(***************************************************************************)
C14_AtMostOneInsert ==
  /\ Len(inserts) <= 1
  /\ req.documentId \in {Undefined, ""} => inserts = <<>>

C14_Witness == Done /\ Len(inserts) = 1 /\ Len(Calls) = 5

(***************************************************************************)
(* C15: the body of a provider response is read at most once in an         *)
(* invocation: no text() or json() is called on a response whose body was  *)
(* already consumed.                                                       *)
(***************************************************************************)
C15_BodyReadAtMostOnce == bodyReads <= 1

(***************************************************************************)
(* C16: every wait of the retry loop is followed by another attempt: a     *)
(* wait happens only while attempts remain, none after the answer to the   *)
(* 4th attempt.                                                            *)
(***************************************************************************)
C16_WaitLeadsToAttempt ==
  (trace # <<>> /\ IsWait(Last(trace))) => (pc = "loop" /\ Len(PrimaryCalls) < 4)

(***************************************************************************)
(* C17 as stated: the wait after a 429 is the Retry-After value times 1000 *)
(* whenever the header is present, else the number of a body hint "try     *)
(* again in <number>s" times 1000 rounded up, else 5000 ms.                *)
(***************************************************************************)
AfterRateLimit == trace # <<>> /\ IsWait(Last(trace)) /\ groqRes.status = 429

HintDelay == parseGroqRetry(groqRes.body)

C17_Original ==
  AfterRateLimit
    => Last(trace).ms =
         IF groqRes.retryAfter.present THEN Times1000(parseInt(groqRes.retryAfter.value))
         ELSE IF HintDelay # Null THEN HintDelay
         ELSE [nan |-> FALSE, v |-> 5000]

(***************************************************************************)
(* C17 amended: the wait after a 429 is the Retry-After value times 1000   *)
(* whenever the header is present with a non-empty value; otherwise the    *)
(* number of a body hint "try again in <number>s" times 1000 rounded up;   *)
(* otherwise 5000 ms.  The hint is never used with a non-empty header, the *)
(* default only when there is neither a non-empty header nor a hint.       *)
(***************************************************************************)
C17_DelayPriority ==
  AfterRateLimit
    => Last(trace).ms =
         IF groqRes.retryAfter.present /\ groqRes.retryAfter.value # <<>>
         THEN Times1000(parseInt(groqRes.retryAfter.value))
         ELSE IF HintDelay # Null THEN HintDelay
         ELSE [nan |-> FALSE, v |-> 5000]

C17_Witness ==
  /\ AfterRateLimit
  /\ groqRes.retryAfter = [present |-> TRUE, value |-> <<>>]
  /\ groqRes.body = <<"rate limit reached", TryAgainIn, " ", "7", "s">>
  /\ Last(trace).ms = [nan |-> FALSE, v |-> 7000]

(***************************************************************************)
(* C18: every delay the retry loop waits is a non-negative whole number of *)
(* milliseconds, never NaN, whatever Retry-After value and body the        *)
(* provider sends.                                                         *)
(***************************************************************************)
C18_DelaysAreNumbers ==
  \A i \in 1..Len(trace) :
    IsWait(trace[i]) => (~trace[i].ms.nan /\ trace[i].ms.v >= 0)

(***************************************************************************)
(* C19: the fallback-model call is made if and only if the last response   *)
(* of the retry loop has status 404, on whichever attempt it arrives; it   *)
(* is made at most once, directly after that 404, and its outcome is       *)
(* final: no call and no wait follows it, whatever its status.             *)
(***************************************************************************)
C19_FallbackModelOnceAndFinal ==
  /\ Len(FallbackCalls) <= 1
  /\ \A i \in 1..Len(trace) :
       IsFallbackCall(trace[i])
         => /\ i = Len(trace)
            /\ i > 1
            /\ IsPrimaryCall(trace[i - 1])
            /\ trace[i - 1].status = 404
  /\ (Done /\ PrimaryCalls # <<>> /\ Last(PrimaryCalls).status = 404)
       => Len(FallbackCalls) = 1

C19_Witness ==
  /\ Done
  /\ Len(PrimaryCalls) = 4
  /\ Len(FallbackCalls) = 1
  /\ Last(trace).status = 429

(***************************************************************************)
(* C20: a primary-model response that is 2xx, or a 4xx other than 404 and  *)
(* 429, ends the provider traffic on whichever attempt it arrives: no      *)
(* call and no wait follows it.                                            *)
(***************************************************************************)
EndsTraffic(ev) ==
  /\ IsPrimaryCall(ev)
  /\ ~ev.rejected
  /\ \/ ev.status \in 200..299
     \/ ev.status \in 400..499 /\ ev.status \notin {404, 429}

C20_NoTrafficAfterFinalAnswer ==
  \A i \in 1..Len(trace) : EndsTraffic(trace[i]) => i = Len(trace)

C20_Witness ==
  /\ Done
  /\ Len(PrimaryCalls) = 3
  /\ Len(trace) = 5
  /\ Last(trace).status = 400

(***************************************************************************)
(* C21: for an invocation given a documentId, a 200 response was preceded  *)
(* by exactly one insert carrying the complianceScore, riskLevel,          *)
(* keyPoints and recommendations of the returned result, and a response of *)
(* any other status by no insert.                                          *)
(***************************************************************************)
C21_PersistedIffAnswered200 ==
  (Done /\ ~Falsy(req.documentId))
    => IF response.status = 200
       THEN /\ Len(inserts) = 1
            /\ inserts[1].row = Row(req.documentId, response.body)
       ELSE inserts = <<>>

(***************************************************************************)
(* C22: in the flag-controlled variant, when the final provider response   *)
(* is not 2xx: with USE_FALLBACK the answer is 200 with the static         *)
(* fallback annotated fallback: true, persisted when a documentId is       *)
(* given; without it the answer is 502 {error: "Groq API failed", status,  *)
(* details} and nothing is persisted.                                      *)
(***************************************************************************)
C22_FlagDecidesNonOkAnswer ==
  (Done /\ variant = "flag" /\ Calls # <<>> /\ ~Last(Calls).rejected /\ ~Ok(groqRes))
    => IF USE_FALLBACK
       THEN /\ response.status = 200
            /\ IsStaticFallback(response.body)
            /\ HasFallbackMarker(response.body)
            /\ ~Falsy(req.documentId)
                 => (Len(inserts) = 1 /\ inserts[1].row = Row(req.documentId, fallbackResult))
       ELSE /\ response = json([error |-> "Groq API failed", status |-> groqRes.status,
                                details |-> groqRes.body], 502)
            /\ inserts = <<>>

(***************************************************************************)
(* Concurrent invocations of the analyze handler (route.ts).  Every        *)
(* activation of POST has its own locals; GROQ_API_KEY, MODEL_NAME and the *)
(* fallbackResult object belong to the module and are shared.              *)
(***************************************************************************)
ConcRequests ==
  [content : {"doc"}, lawRegion : {"", "gdpr"}, documentId : {Undefined, "d1"}]

\* what the provider answers to the concurrent invocations
ConcOutcomes ==
  {r \in ProviderResponses :
     \/ r.status \in {404, 500}
     \/ r.status = 200 /\ r.envelope = "content" /\ r.content \in {<<"{full}">>, <<"prose">>}}
    \cup {Rejected}

ConcInit ==
  /\ PromptIdle
  /\ PageIdle
  /\ ChatIdle
  /\ ApiIdle
  /\ DelIdle
  /\ variant = "simple"
  /\ GROQ_API_KEY \in BOOLEAN
  /\ MODEL_NAME = "primary"
  /\ USE_FALLBACK = FALSE
  /\ req = NoRequest
  /\ pc = "entry"
  /\ attempt = 0
  /\ groqRes = NoResponse
  /\ bodyUsed = FALSE
  /\ bodyReads = 0
  /\ trace = <<>>
  /\ inserts = <<>>
  /\ response = NoResponse
  /\ inv \in [Invocations -> {Locals(r) : r \in ConcRequests}]
  /\ attemptOf = [i \in Invocations |-> 0]
  /\ moduleFallback = fallbackResult

\* faulty alternative: the counter is declared at module level, one cell for all
AttemptCellOfModule(i) == 1

\* let attempt = 0 inside POST: the cell of activation i
AttemptCell(i) == i

\* the insert outcomes an activation can meet: none without a documentId
SaveOutcomes(l) == IF Falsy(l.req.documentId) THEN {"none"} ELSE InsertOutcomes

\* saveResult(documentId, r) of an activation
Saved(l, r, o) ==
  IF Falsy(l.req.documentId) \/ IsJsNull(r) THEN l.inserts
  ELSE Append(l.inserts, [row |-> Row(l.req.documentId, r), outcome |-> o])

\* if (documentId) await saveResult(documentId, r); return resp
Returned(l, resp, r, o) ==
  [l EXCEPT !.pc = "done", !.response = resp, !.inserts = Saved(l, r, o),
            !.seen = Append(@, [insert |-> o])]

\* a return that saves nothing
Failed(l, resp) == [l EXCEPT !.pc = "done", !.response = resp]

\* the activation made a provider call that resolved to out
Fetched(l, model, out) ==
  [l EXCEPT !.trace = Append(@, Call(model, out)), !.seen = Append(@, out)]

\* the catch around a fetch
CaughtFetch(l, code, o) ==
  Returned(l,
           json(Spread(moduleFallback,
                       [fallback |-> TRUE, error |-> code,
                        details |-> <<"TypeError: fetch failed">>]), 200),
           moduleFallback, o)

\* validation, the missing-key answer, or entry into the retry loop
ConcStart(i) ==
  LET l == inv[i]
  IN /\ l.pc = "entry"
     /\ IF Falsy(l.req.content) \/ Falsy(l.req.lawRegion)
        THEN /\ inv' = [inv EXCEPT ![i] =
                          Failed(l, json([error |-> "Missing content or lawRegion"], 400))]
             /\ UNCHANGED attemptOf
        ELSE IF ~GROQ_API_KEY
        THEN /\ \E o \in SaveOutcomes(l) :
                  inv' = [inv EXCEPT ![i] =
                            Returned(l, json(moduleFallback, 200), moduleFallback, o)]
             /\ UNCHANGED attemptOf
        ELSE /\ inv' = [inv EXCEPT ![i].pc = "loop"]
             /\ attemptOf' = [attemptOf EXCEPT ![AttemptCell(i)] = 0]
     /\ UNCHANGED <<exceptConc, moduleFallback>>

\* one iteration of the retry loop of activation i
ConcAttempt(i) ==
  LET l == inv[i]
      n == attemptOf[AttemptCell(i)]
  IN /\ l.pc = "loop"
     /\ LoopContinues(n)
     /\ \E out \in ConcOutcomes :
          LET called == Fetched(l, MODEL_NAME, out)
          IN IF out = Rejected
             THEN /\ \E o \in SaveOutcomes(l) :
                       inv' = [inv EXCEPT ![i] = CaughtFetch(called, "groq_fetch_failed", o)]
                  /\ UNCHANGED attemptOf
             ELSE IF Ok(out) \/ out.status = 404
             THEN /\ inv' = [inv EXCEPT ![i] =
                               [called EXCEPT !.groqRes = out, !.bodyUsed = FALSE,
                                              !.pc = "after_loop"]]
                  /\ UNCHANGED attemptOf
             ELSE IF out.status = 429 \/ IsServerError(out.status)
             THEN /\ inv' = [inv EXCEPT ![i] =
                               [called EXCEPT !.groqRes = out, !.bodyUsed = TRUE,
                                              !.trace = Append(@, Wait(IF out.status = 429
                                                                       THEN RateLimitDelay(out)
                                                                       ELSE BackoffDelay(n)))]]
                  /\ attemptOf' = [attemptOf EXCEPT ![AttemptCell(i)] = n + 1]
             ELSE /\ inv' = [inv EXCEPT ![i] =
                               [called EXCEPT !.groqRes = out, !.bodyUsed = TRUE,
                                              !.pc = "after_loop"]]
                  /\ UNCHANGED attemptOf
     /\ UNCHANGED <<exceptConc, moduleFallback>>

\* activation i has left its retry loop
AfterLoop(i) ==
  \/ inv[i].pc = "after_loop"
  \/ inv[i].pc = "loop" /\ ~LoopContinues(attemptOf[AttemptCell(i)])

\* 404: one call with the fallback model
ConcModelFallback(i) ==
  LET l == inv[i]
  IN /\ AfterLoop(i)
     /\ NeedsModelFallback(l.groqRes)
     /\ \E out \in ConcOutcomes :
          LET called == Fetched(l, FALLBACK_MODEL, out)
          IN IF out = Rejected
             THEN \E o \in SaveOutcomes(l) :
                    inv' = [inv EXCEPT ![i] =
                              CaughtFetch(called, "groq_fallback_fetch_failed", o)]
             ELSE inv' = [inv EXCEPT ![i] =
                            [called EXCEPT !.groqRes = out, !.bodyUsed = FALSE,
                                           !.pc = "settled"]]
     /\ UNCHANGED <<exceptConc, attemptOf, moduleFallback>>

\* the non-OK answer, or the parsed answer
ConcRespond(i) ==
  LET l == inv[i]
  IN /\ l.pc = "settled" \/ (AfterLoop(i) /\ ~NeedsModelFallback(l.groqRes))
     /\ IF l.groqRes = NoResponse \/ ~Ok(l.groqRes)
        THEN IF l.groqRes # NoResponse /\ l.bodyUsed
             THEN inv' = [inv EXCEPT ![i] = Failed(l, InternalError(<<"Body is unusable">>))]
             ELSE \E o \in SaveOutcomes(l) :
                    inv' = [inv EXCEPT ![i] =
                              Returned(l,
                                       json(Spread(moduleFallback,
                                                   [fallback |-> TRUE,
                                                    groqStatus |-> l.groqRes.status,
                                                    groqBody |-> IF l.groqRes # NoResponse
                                                                 THEN l.groqRes.body
                                                                 ELSE <<"no response">>]), 200),
                                       moduleFallback, o)]
        ELSE IF l.groqRes.envelope = "notjson"
             THEN inv' = [inv EXCEPT ![i] = Failed(l, InternalError(<<"Unexpected token">>))]
             ELSE LET p == JSONparse(Answer(l.groqRes))
                      parsed == IF p.ok THEN p.value ELSE moduleFallback
                  IN \E o \in SaveOutcomes(l) :
                       inv' = [inv EXCEPT ![i] = Returned(l, json(parsed, 200), parsed, o)]
     /\ UNCHANGED <<exceptConc, attemptOf, moduleFallback>>

ConcNext ==
  \/ \E i \in Invocations : ConcStart(i)
  \/ \E i \in Invocations : ConcAttempt(i)
  \/ \E i \in Invocations : ConcModelFallback(i)
  \/ \E i \in Invocations : ConcRespond(i)

ConcSpec == ConcInit /\ [][ConcNext]_vars

(***************************************************************************)
(* C23: under every interleaving of concurrent invocations, the provider   *)
(* calls, waits, store write and response of an invocation are determined  *)
(* by its own request and the outcomes it received itself: two activations *)
(* with the same request that have received the same outcomes and stand at *)
(* the same point have made the same calls, waits and inserts and given    *)
(* the same response, whatever the other did in between; the attempt count *)
(* of an activation is the number of its own waits; and the module-level   *)
(* fallbackResult object keeps its contents.                               *)
(***************************************************************************)
C23_InvocationsAreIndependent ==
  /\ moduleFallback = fallbackResult
  /\ \A i, j \in Invocations :
       (inv[i].req = inv[j].req /\ inv[i].seen = inv[j].seen
          /\ inv[i].pc = inv[j].pc)
         => /\ inv[i].trace = inv[j].trace
            /\ inv[i].inserts = inv[j].inserts
            /\ inv[i].response = inv[j].response
  /\ \A i \in Invocations : Len(SelectSeq(inv[i].trace, IsWait)) = attemptOf[i]

C23_Witness ==
  /\ inv[1].pc = "loop" /\ attemptOf[1] = 3
  /\ inv[2].pc = "loop" /\ attemptOf[2] = 1
  /\ inv[1].req = inv[2].req

(***************************************************************************)
(* Termination: every provider call, wait and store write completes, so a  *)
(* handler that can take a step eventually takes one.                      *)
(***************************************************************************)
\* one provider answer of every status and every 2xx content; which delay a
\* 429 asks for does not decide whether the handler returns
LiveOutcomes ==
  {r \in ProviderResponses : r.status = 429 => (r.retryAfter = NoHeader /\ r.body = <<>>)}
    \cup {Rejected}

LiveAttempt == AttemptOn(LiveOutcomes)
LiveModelFallback == ModelFallbackOn(LiveOutcomes)

LiveNext ==
  \/ InvalidRequest
  \/ ProviderUnconfigured
  \/ BuildRequest
  \/ LiveAttempt
  \/ LiveModelFallback
  \/ HandleNonOk
  \/ ParseResponse

LiveSpec == Init /\ [][LiveNext]_vars /\ WF_vars(LiveNext)

(***************************************************************************)
(* C24: every invocation eventually ends with exactly one HTTP response,   *)
(* whatever the provider answers: the handler reaches its return, the      *)
(* response once given never changes, and the retry loop makes at most 4   *)
(* iterations.                                                             *)
(***************************************************************************)
C24_Terminates ==
  /\ <>Done
  /\ [](Len(PrimaryCalls) <= MAX_RETRIES /\ attempt <= MAX_RETRIES)
  /\ [][response # NoResponse => response' = response]_vars

C24_Witness == Done /\ Len(PrimaryCalls) = MAX_RETRIES /\ Len(FallbackCalls) = 0

(***************************************************************************)
(* The prompt: region label and document excerpt                           *)
(***************************************************************************)
\* the analyze handler at rest
AnalyzeIdle ==
  /\ variant = "simple"
  /\ GROQ_API_KEY = TRUE
  /\ MODEL_NAME = "primary"
  /\ USE_FALLBACK = FALSE
  /\ req = NoRequest
  /\ pc = "entry"
  /\ attempt = 0
  /\ groqRes = NoResponse
  /\ bodyUsed = FALSE
  /\ bodyReads = 0
  /\ trace = <<>>
  /\ inserts = <<>>
  /\ response = NoResponse

\* the own properties of the regionMap literal
regionMap ==
  ("gdpr" :> "GDPR (EU)") @@ ("ccpa" :> "CCPA (California)") @@ ("dpdpa" :> "DPDPA (India)")

\* what a template literal makes of the members an object literal inherits
\* from Object.prototype
ObjectPrototype ==
  ("constructor" :> "function Object() { [native code] }") @@
  ("toString" :> "function toString() { [native code] }") @@
  ("valueOf" :> "function valueOf() { [native code] }") @@
  ("hasOwnProperty" :> "function hasOwnProperty() { [native code] }") @@
  ("__proto__" :> "[object Object]")

\* regionMap[key]: own properties first, then the prototype chain
Lookup(key) ==
  IF key \in DOMAIN regionMap THEN [defined |-> TRUE, value |-> regionMap[key]]
  ELSE IF key \in DOMAIN ObjectPrototype THEN [defined |-> TRUE, value |-> ObjectPrototype[key]]
  ELSE [defined |-> FALSE]

\* regionMap[lawRegion] ?? lawRegion
RegionLabel(lawRegion) ==
  LET found == Lookup(lawRegion)
  IN IF found.defined THEN found.value ELSE lawRegion

\* content.slice(0, 10_000); the flag variant keeps 12000 characters
SliceLimit(v) == IF v = "simple" THEN 10000 ELSE 12000
SliceLen(v, n) == IF n < SliceLimit(v) THEN n ELSE SliceLimit(v)

LawRegions ==
  {"gdpr", "ccpa", "dpdpa", "GDPR", "lgpd", "pipeda", "hipaa", "Gdpr ", "eu",
   "constructor", "toString", "valueOf", "hasOwnProperty", "__proto__"}

ContentLengths == {1, 9999, 10000, 10001, 12000, 12001}

PromptInit ==
  /\ AnalyzeIdle
  /\ ConcIdle
  /\ PageIdle
  /\ ChatIdle
  /\ ApiIdle
  /\ DelIdle
  /\ promptIn \in [variant : Variants, lawRegion : LawRegions, contentLen : ContentLengths]
  /\ prompt = NoPrompt

BuildPrompt ==
  /\ prompt = NoPrompt
  /\ prompt' = [built |-> TRUE,
                region |-> RegionLabel(promptIn.lawRegion),
                documentLen |-> SliceLen(promptIn.variant, promptIn.contentLen)]
  /\ UNCHANGED <<exceptPrompt, promptIn>>

PromptNext == BuildPrompt

PromptSpec == PromptInit /\ [][PromptNext]_vars

(***************************************************************************)
(* C25: the region label placed in the prompt is "GDPR (EU)" for gdpr,     *)
(* "CCPA (California)" for ccpa, "DPDPA (India)" for dpdpa, and for every  *)
(* other lawRegion string that string itself.                              *)
(***************************************************************************)
C25_RegionLabel ==
  prompt.built
    => prompt.region =
         CASE promptIn.lawRegion = "gdpr" -> "GDPR (EU)"
           [] promptIn.lawRegion = "ccpa" -> "CCPA (California)"
           [] promptIn.lawRegion = "dpdpa" -> "DPDPA (India)"
           [] OTHER -> promptIn.lawRegion

(***************************************************************************)
(* The page UI: the two analysis handlers, their progress timers and the   *)
(* user events that reach them                                             *)
(***************************************************************************)
\* how many handler calls one session is followed for
MaxRuns == 2

InputTexts == {<<>>, <<" ">>, <<"policy">>}

PageInit ==
  /\ AnalyzeIdle
  /\ ConcIdle
  /\ PromptIdle
  /\ ChatIdle
  /\ ApiIdle
  /\ DelIdle
  /\ user \in BOOLEAN
  /\ conversationInput = <<>>
  /\ documentText = FALSE
  /\ processingState = "idle"
  /\ progress = 0
  /\ viewMode = "home"
  /\ authModalOpen = FALSE
  /\ runs = <<>>
  /\ timers = {}
  /\ documents = 0
  /\ requests = 0

\* onChange of the conversation input
TypeText ==
  /\ viewMode = "home"
  /\ \E t \in InputTexts : t # conversationInput /\ conversationInput' = t
  /\ UNCHANGED <<exceptPage, user, documentText, processingState, progress, viewMode,
                 authModalOpen, runs, timers, documents, requests>>

\* the document textarea or a file upload
PasteDocument ==
  /\ viewMode = "home"
  /\ ~documentText
  /\ documentText' = TRUE
  /\ UNCHANGED <<exceptPage, user, conversationInput, processingState, progress, viewMode,
                 authModalOpen, runs, timers, documents, requests>>

\* handleConversationAnalysis, up to its first await
handleConversationAnalysis ==
  /\ Len(runs) < MaxRuns
  /\ Trim(conversationInput) # <<>>
  /\ IF ~user
     THEN /\ authModalOpen' = TRUE
          /\ UNCHANGED <<processingState, progress, runs>>
     ELSE /\ processingState' = "processing"
          /\ progress' = 0
          /\ runs' = Append(runs, [kind |-> "conversation", stage |-> "saving"])
          /\ UNCHANGED authModalOpen
  /\ UNCHANGED <<exceptPage, user, conversationInput, documentText, viewMode, timers,
                 documents, requests>>

\* handleSummarize, up to its first await
handleSummarize ==
  /\ Len(runs) < MaxRuns
  /\ documentText
  /\ IF ~user
     THEN /\ authModalOpen' = TRUE
          /\ UNCHANGED <<processingState, progress, runs>>
     ELSE /\ processingState' = "processing"
          /\ progress' = 0
          /\ runs' = Append(runs, [kind |-> "summarize", stage |-> "saving"])
          /\ UNCHANGED authModalOpen
  /\ UNCHANGED <<exceptPage, user, conversationInput, documentText, viewMode, timers,
                 documents, requests>>

\* onKeyPress={(e) => e.key === "Enter" && handleConversationAnalysis()}
EnterEnabled == viewMode = "home"

\* disabled={!conversationInput.trim() || processingState === "processing"}
SendEnabled ==
  viewMode = "home" /\ Trim(conversationInput) # <<>> /\ processingState # "processing"

\* disabled={(!documentText && !uploadedFile) || processingState === "processing"}
AnalyzeEnabled == viewMode = "home" /\ documentText /\ processingState # "processing"

PressEnter == EnterEnabled /\ handleConversationAnalysis
ClickSend == SendEnabled /\ handleConversationAnalysis
ClickAnalyze == AnalyzeEnabled /\ handleSummarize

\* the Home button of the results view
GoHome ==
  /\ viewMode = "results"
  /\ viewMode' = "home"
  /\ documentText' = FALSE
  /\ UNCHANGED <<exceptPage, user, conversationInput, processingState, progress,
                 authModalOpen, runs, timers, documents, requests>>

Ended(k) == [runs EXCEPT ![k].stage = "ended"]

\* catch { setProcessingState("idle") } (handleSummarize: and setProgress(0));
\* finally { setConversationInput("") } in handleConversationAnalysis
Caught(k) ==
  /\ runs' = Ended(k)
  /\ processingState' = "idle"
  /\ progress' = IF runs[k].kind = "summarize" THEN 0 ELSE progress
  /\ conversationInput' = IF runs[k].kind = "conversation" THEN <<>> ELSE conversationInput
  /\ UNCHANGED <<documentText, viewMode>>

\* the profile upsert and the document insert of run k complete
PageSaved(k) ==
  /\ k \in 1..Len(runs)
  /\ runs[k].stage = "saving"
  /\ \E out \in {"ok", "failed"} :
       IF out = "ok"
       THEN /\ documents' = documents + 1
            /\ timers' = timers \cup {k}
            /\ requests' = requests + 1
            /\ runs' = [runs EXCEPT ![k].stage = "fetching"]
            /\ UNCHANGED <<conversationInput, documentText, processingState, progress, viewMode>>
       ELSE /\ Caught(k)
            /\ UNCHANGED <<documents, timers, requests>>
  /\ UNCHANGED <<exceptPage, user, authModalOpen>>

\* the /api/analyze request of run k settles
PageFetched(k) ==
  /\ k \in 1..Len(runs)
  /\ runs[k].stage = "fetching"
  /\ \E out \in {"ok", "badjson", "nonok", "rejected"} :
       IF out = "rejected"
       THEN \* the await throws: clearInterval is not reached
            /\ Caught(k)
            /\ UNCHANGED timers
       ELSE /\ timers' = timers \ {k}
            /\ IF out = "ok"
               THEN /\ runs' = Ended(k)
                    /\ documentText' = IF runs[k].kind = "conversation" THEN TRUE ELSE documentText
                    /\ progress' = 100
                    /\ processingState' = "completed"
                    /\ viewMode' = "results"
                    /\ conversationInput' =
                         IF runs[k].kind = "conversation" THEN <<>> ELSE conversationInput
               ELSE Caught(k)
  /\ UNCHANGED <<exceptPage, user, authModalOpen, documents, requests>>

\* a tick of the progressInterval of run k
Tick(k) ==
  /\ k \in timers
  /\ IF progress >= 90
     THEN /\ timers' = timers \ {k}
          /\ progress' = 90
     ELSE /\ progress' = progress + 10
          /\ UNCHANGED timers
  /\ UNCHANGED <<exceptPage, user, conversationInput, documentText, processingState,
                 viewMode, authModalOpen, runs, documents, requests>>

PageNext ==
  \/ TypeText
  \/ PasteDocument
  \/ PressEnter
  \/ ClickSend
  \/ ClickAnalyze
  \/ GoHome
  \/ \E k \in 1..MaxRuns : PageSaved(k)
  \/ \E k \in 1..MaxRuns : PageFetched(k)
  \/ \E k \in 1..MaxRuns : Tick(k)

PageSpec == PageInit /\ [][PageNext]_vars

InFlight == {k \in 1..Len(runs) : runs[k].stage # "ended"}

(***************************************************************************)
(* C26: in the page UI at most one analysis run is in flight at a time:    *)
(* while a run is in progress no send button, Analyze Document button or   *)
(* Enter key starts a second one.                                          *)
(***************************************************************************)
C26_OneRunInFlight == Cardinality(InFlight) <= 1

(***************************************************************************)
(* C27: once a run has ended, its progress timer is no longer running: no  *)
(* timer is set while processingState is "idle" or "completed", and        *)
(* progress is 100 while it is "completed".                                *)
(***************************************************************************)
C27_NoTimerAfterRun ==
  processingState # "processing"
    => /\ timers = {}
       /\ processingState = "completed" => progress = 100

(***************************************************************************)
(* The chat interface: sending a question and receiving the reply          *)
(***************************************************************************)
\* how many questions one conversation is followed for
MaxSends == 3

Questions == {<<>>, <<" ">>, <<"q1">>, <<"q2", " ">>}

ErrorNotice ==
  [type |-> "assistant", content |-> <<"Sorry, I encountered an error. Please try again.">>]

ChatInit ==
  /\ AnalyzeIdle
  /\ ConcIdle
  /\ PromptIdle
  /\ PageIdle
  /\ ApiIdle
  /\ DelIdle
  /\ originalContent \in {<<" ">>, <<"doc">>}
  /\ messages = <<Greeting>>
  /\ input = <<>>
  /\ isTyping = FALSE
  /\ chatPending = 0
  /\ chatSent = 0

\* onChange of the question input
ChatType ==
  /\ \E t \in Questions : t # input /\ input' = t
  /\ UNCHANGED <<exceptChat, originalContent, messages, isTyping, chatPending, chatSent>>

\* faulty alternative: only an empty question is ignored
SendIgnoredWhenEmpty == Trim(input) = <<>>

\* if (!input.trim() || isTyping) return
SendIgnored == Trim(input) = <<>> \/ isTyping

\* handleSendMessage, up to its await
handleSendMessage ==
  /\ chatSent < MaxSends
  /\ ~SendIgnored
  /\ Trim(originalContent) # <<>>
  /\ messages' = Append(messages, [type |-> "user", content |-> input])
  /\ input' = <<>>
  /\ isTyping' = TRUE
  /\ chatPending' = chatPending + 1
  /\ chatSent' = chatSent + 1
  /\ UNCHANGED <<exceptChat, originalContent>>

\* onKeyPress={(e) => e.key === "Enter" && handleSendMessage()}
ChatPressEnter == handleSendMessage

\* the send button: disabled={!input.trim() || isTyping}
ChatClickSend == Trim(input) # <<>> /\ ~isTyping /\ handleSendMessage

\* the /api/chat request settles: the reply, or the error notice
ChatSettled ==
  /\ chatPending > 0
  /\ \E out \in {"ok", "nonok", "badjson", "rejected"} :
       messages' = Append(messages,
                          IF out = "ok" THEN [type |-> "assistant", content |-> <<"reply">>]
                          ELSE ErrorNotice)
  /\ isTyping' = FALSE
  /\ chatPending' = chatPending - 1
  /\ UNCHANGED <<exceptChat, originalContent, input, chatSent>>

ChatNext ==
  \/ ChatType
  \/ ChatPressEnter
  \/ ChatClickSend
  \/ ChatSettled

ChatSpec == ChatInit /\ [][ChatNext]_vars

(***************************************************************************)
(* C28: in the chat interface a send is ignored while a reply is pending:  *)
(* at most one /api/chat request is outstanding, and every accepted user   *)
(* message is followed by exactly one assistant message (the reply or the  *)
(* error notice) before another user message is accepted, so after the     *)
(* greeting user and assistant messages alternate.                         *)
(***************************************************************************)
C28_OneReplyPerQuestion ==
  /\ chatPending <= 1
  /\ isTyping <=> chatPending = 1
  /\ \A k \in 1..Len(messages) :
       messages[k].type = IF k % 2 = 1 THEN "assistant" ELSE "user"
  /\ isTyping <=> Last(messages).type = "user"

C28_Witness ==
  /\ Len(messages) = 5
  /\ messages[3] = ErrorNotice
  /\ messages[5].content = <<"reply">>
  /\ ~isTyping

(***************************************************************************)
(* The chat endpoint                                                       *)
(***************************************************************************)
ApiVariants == {"route", "footer"}

\* chatHistory: absent, an empty array, or an array of messages
ApiRequests ==
  [documentContent : {Undefined, "", "doc"},
   question : {Undefined, "", "why?"},
   chatHistory : {Undefined, "[]", "[user, assistant]"}]

ApiInit ==
  /\ AnalyzeIdle
  /\ ConcIdle
  /\ PromptIdle
  /\ PageIdle
  /\ ChatIdle
  /\ DelIdle
  /\ apiVariant \in ApiVariants
  /\ apiKey \in BOOLEAN
  /\ apiReq \in ApiRequests
  /\ apiPc = "entry"
  /\ apiCalls = <<>>
  /\ apiResponse = NoResponse

ApiDone(resp) ==
  /\ apiResponse' = resp
  /\ apiPc' = "done"

\* faulty alternative: only the document is required
ApiMissingDocumentOnly == Falsy(apiReq.documentContent)

\* if (!documentContent || !question)
ApiMissing == Falsy(apiReq.documentContent) \/ Falsy(apiReq.question)

ApiInternalError == json([error |-> "Internal server error"], 500)

ConfigurationNotice ==
  [content |-> <<"The GROQ_API_KEY is not configured. Please add it to your environment variables.">>]

\* choices?.[0]?.message?.content?.trim() ?? "Sorry, I could not generate a response."
ChatAnswer(res) ==
  IF res.envelope = "content" THEN Trim(res.content)
  ELSE <<"Sorry, I could not generate a response.">>

ApiInvalidRequest ==
  /\ apiPc = "entry"
  /\ ApiMissing
  /\ ApiDone(json([error |-> "Missing documentContent or question"], 400))
  /\ UNCHANGED <<exceptApi, apiVariant, apiKey, apiReq, apiCalls>>

ApiUnconfigured ==
  /\ apiPc = "entry"
  /\ ~ApiMissing
  /\ ~apiKey
  /\ ApiDone(json(ConfigurationNotice, 200))
  /\ UNCHANGED <<exceptApi, apiVariant, apiKey, apiReq, apiCalls>>

\* the prompt and the messages: spreading (footer: mapping) a chatHistory that
\* is undefined throws, which the outer catch answers
ApiBuildMessages ==
  /\ apiPc = "entry"
  /\ ~ApiMissing
  /\ apiKey
  /\ IF apiReq.chatHistory = Undefined
     THEN ApiDone(ApiInternalError)
     ELSE /\ apiPc' = "fetch"
          /\ UNCHANGED apiResponse
  /\ UNCHANGED <<exceptApi, apiVariant, apiKey, apiReq, apiCalls>>

\* the one fetch and what is made of its outcome
ApiFetch ==
  /\ apiPc = "fetch"
  /\ \E out \in LiveOutcomes :
       /\ apiCalls' = Append(apiCalls, Call(MODEL_NAME, out))
       /\ IF out = Rejected THEN ApiDone(ApiInternalError)
          ELSE IF ~Ok(out)
          THEN ApiDone(json([error |-> "Failed to get response from Groq"], 500))
          ELSE IF out.envelope = "notjson" THEN ApiDone(ApiInternalError)
          ELSE ApiDone(json([content |-> ChatAnswer(out)], 200))
  /\ UNCHANGED <<exceptApi, apiVariant, apiKey, apiReq>>

ApiNext ==
  \/ ApiInvalidRequest
  \/ ApiUnconfigured
  \/ ApiBuildMessages
  \/ ApiFetch

ApiSpec == ApiInit /\ [][ApiNext]_vars

(***************************************************************************)
(* C29: the chat endpoint never retries: a request makes at most one       *)
(* provider call, and none when documentContent or question is missing     *)
(* (answered 400) or when no API key is configured (answered 200 with the  *)
(* configuration notice); a provider response that is not 2xx, or a thrown *)
(* error, is answered 500.                                                 *)
(***************************************************************************)
ApiInputMissing ==
  apiReq.documentContent \in {Undefined, ""} \/ apiReq.question \in {Undefined, ""}

C29_ChatNeverRetries ==
  /\ Len(apiCalls) <= 1
  /\ apiPc = "done"
       => /\ ApiInputMissing => (apiResponse.status = 400 /\ apiCalls = <<>>)
          /\ (~ApiInputMissing /\ ~apiKey)
               => (apiResponse = json(ConfigurationNotice, 200) /\ apiCalls = <<>>)
          /\ (apiCalls # <<>> /\ ~(apiCalls[1].status \in 200..299))
               => apiResponse.status = 500
          /\ (apiCalls = <<>> /\ ~ApiInputMissing /\ apiKey) => apiResponse.status = 500

C29_Witness ==
  /\ apiPc = "done"
  /\ Len(apiCalls) = 1
  /\ apiCalls[1].status = 503
  /\ apiResponse = json([error |-> "Failed to get response from Groq"], 500)

(***************************************************************************)
(* The delete-account endpoint and the record sets it deletes from         *)
(***************************************************************************)
\* the rows a user can have under the foreign keys of the schema: analysis
\* results belong to documents, documents to a profile, a profile to the
\* auth user
ConsistentRows ==
  {r \in [auth : BOOLEAN, profile : BOOLEAN, documents : BOOLEAN, results : BOOLEAN] :
     /\ r.results => r.documents
     /\ r.documents => r.profile
     /\ r.profile => r.auth}

DelInit ==
  /\ AnalyzeIdle
  /\ ConcIdle
  /\ PromptIdle
  /\ PageIdle
  /\ ChatIdle
  /\ ApiIdle
  /\ profileCascades \in BOOLEAN
  /\ userId \in {Undefined, "", "u1"}
  /\ rows \in ConsistentRows
  /\ delPc = "entry"
  /\ docIds = FALSE
  /\ delFailed = {}
  /\ delResponse = NoResponse

StoreOutcomes == {"ok", "error"}

\* if (!userId) return 400
DelValidate ==
  /\ delPc = "entry"
  /\ IF Falsy(userId)
     THEN /\ delResponse' = json([error |-> "Missing userId"], 400)
          /\ delPc' = "done"
     ELSE /\ delPc' = "select"
          /\ UNCHANGED delResponse
  /\ UNCHANGED <<exceptDel, profileCascades, userId, rows, docIds, delFailed>>

\* select the user's document ids; docs is null when the select fails
DelSelect ==
  /\ delPc = "select"
  /\ \E out \in StoreOutcomes :
       /\ docIds' = (out = "ok" /\ rows.documents)
       /\ delFailed' = IF out = "ok" THEN delFailed ELSE delFailed \cup {"select"}
  /\ delPc' = "results"
  /\ UNCHANGED <<exceptDel, profileCascades, userId, rows, delResponse>>

\* if (docIds.length > 0) delete the analysis results of those documents
DelResults ==
  /\ delPc = "results"
  /\ IF docIds
     THEN \E out \in StoreOutcomes :
            /\ rows' = IF out = "ok" THEN [rows EXCEPT !.results = FALSE] ELSE rows
            /\ delFailed' = IF out = "ok" THEN delFailed ELSE delFailed \cup {"results"}
     ELSE UNCHANGED <<rows, delFailed>>
  /\ delPc' = "documents"
  /\ UNCHANGED <<exceptDel, profileCascades, userId, docIds, delResponse>>

\* delete the user's documents; their analysis results go with them
DelDocuments ==
  /\ delPc = "documents"
  /\ \E out \in StoreOutcomes :
       /\ rows' = IF out = "ok"
                  THEN [rows EXCEPT !.documents = FALSE, !.results = FALSE]
                  ELSE rows
       /\ delFailed' = IF out = "ok" THEN delFailed ELSE delFailed \cup {"documents"}
  /\ delPc' = "profile"
  /\ UNCHANGED <<exceptDel, profileCascades, userId, docIds, delResponse>>

\* delete the user's profile; documents and results go with it
DelProfile ==
  /\ delPc = "profile"
  /\ \E out \in StoreOutcomes :
       /\ rows' = IF out = "ok"
                  THEN [rows EXCEPT !.profile = FALSE, !.documents = FALSE, !.results = FALSE]
                  ELSE rows
       /\ delFailed' = IF out = "ok" THEN delFailed ELSE delFailed \cup {"profile"}
  /\ delPc' = "auth"
  /\ UNCHANGED <<exceptDel, profileCascades, userId, docIds, delResponse>>

\* auth.admin.deleteUser: refused for an unknown user and, without the
\* cascade, while a profile still references the user
DelAuthUser ==
  /\ delPc = "auth"
  /\ \E out \in StoreOutcomes :
       IF out = "ok" /\ rows.auth /\ (rows.profile => profileCascades)
       THEN /\ rows' = NoRows
            /\ delResponse' = json([success |-> TRUE], 200)
            /\ UNCHANGED delFailed
       ELSE /\ delResponse' = json([error |-> "adminError"], 500)
            /\ delFailed' = delFailed \cup {"auth"}
            /\ UNCHANGED rows
  /\ delPc' = "done"
  /\ UNCHANGED <<exceptDel, profileCascades, userId, docIds>>

DelNext ==
  \/ DelValidate
  \/ DelSelect
  \/ DelResults
  \/ DelDocuments
  \/ DelProfile
  \/ DelAuthUser

DelSpec == DelInit /\ [][DelNext]_vars

(***************************************************************************)
(* C30: when the delete-account endpoint answers {success: true}, no       *)
(* analysis_results, documents or user_profiles row of the user remains,   *)
(* and none of the delete steps before the auth user's deletion failed.    *)
(***************************************************************************)
C30_SuccessMeansDeleted ==
  (delPc = "done" /\ delResponse = json([success |-> TRUE], 200))
    => /\ ~rows.results /\ ~rows.documents /\ ~rows.profile
       /\ delFailed = {}
====
